---- MODULE Spec2Model ----
(***************************************************************************)
(* The PKGINFO parser of repose (src/pkginfo.rs): the nom tokenizer        *)
(* `pkginfo`, the assembler `build_pkg`, and the two entry points          *)
(* `parse_pkginfo` and `Package::pkginfo`.                                 *)
(*                                                                         *)
(* Byte buffers are sequences of byte values (0..255); a &str is the byte  *)
(* sequence `str::from_utf8` accepted.  A parser result (nom's IResult) is *)
(* a record [k, i, o]: k is "Done", "Error" or "Incomplete", i the         *)
(* remaining input and o the output of a Done.  An Option is a sequence of *)
(* length 0 (None) or 1 (Some).                                            *)
(*                                                                         *)
(* The source uses the nom API that has IResult::Done and do_parse!, which *)
(* nom 2 and nom 3 both have.  The two differ in one place this parser     *)
(* reaches: `space` applied to an empty input is an Error in nom 2 and     *)
(* Incomplete in nom 3.  That outcome is the parameter `ews` of the        *)
(* parsers, chosen nondeterministically by the action that runs them.      *)
(***************************************************************************)
EXTENDS Integers, Sequences, FiniteSets, TLC

VARIABLES
    lines,    \* the file as written: a sequence of line descriptors
    input,    \* the byte buffer handed to the parser (the bytes of `lines`)
    pc,       \* "call", "parsed", "returned" or "panicked"
    tokens,   \* tuple_vec: the Vec<Token> `pkginfo` returned (<<>> if not Done)
    result,   \* what parse_pkginfo returned: [k, i, o], o an Option<Package>
    ret,      \* what Package::pkginfo returned: an Option<Package>
    panic     \* "" or the place of the panic: "build_pkg", "into", "assert_eq"

vars == <<lines, input, pc, tokens, result, ret, panic>>

----------------------------------------------------------------------------
(* Bounds *)

\* The largest number of lines of an input made of well-formed lines.
MaxLines == 4

\* The largest number of lines of an input that holds lines the tokenizer
\* stops at.
MaxTokLines == 3

----------------------------------------------------------------------------
(* Byte strings of the source *)

HASH == <<35>>    \* "#"
EQ == <<61>>      \* "="
NL == <<10>>      \* "\n"
SP == <<32>>      \* " "
TAB == <<9>>      \* "\t"
CR == <<13>>      \* "\r"

Lit_pkgname == <<112, 107, 103, 110, 97, 109, 101>>   \* "pkgname"
Lit_pkgver == <<112, 107, 103, 118, 101, 114>>   \* "pkgver"
Lit_arch == <<97, 114, 99, 104>>   \* "arch"
Lit_pkgbase == <<112, 107, 103, 98, 97, 115, 101>>   \* "pkgbase"
Lit_pkgdesc == <<112, 107, 103, 100, 101, 115, 99>>   \* "pkgdesc"
Lit_url == <<117, 114, 108>>   \* "url"
Lit_builddate == <<98, 117, 105, 108, 100, 100, 97, 116, 101>>   \* "builddate"
Lit_packager == <<112, 97, 99, 107, 97, 103, 101, 114>>   \* "packager"
Lit_size == <<115, 105, 122, 101>>   \* "size"
Lit_group == <<103, 114, 111, 117, 112>>   \* "group"
Lit_license == <<108, 105, 99, 101, 110, 115, 101>>   \* "license"
Lit_replaces == <<114, 101, 112, 108, 97, 99, 101, 115>>   \* "replaces"
Lit_depend == <<100, 101, 112, 101, 110, 100>>   \* "depend"
Lit_conflict == <<99, 111, 110, 102, 108, 105, 99, 116>>   \* "conflict"
Lit_provides == <<112, 114, 111, 118, 105, 100, 101, 115>>   \* "provides"
Lit_optdepend == <<111, 112, 116, 100, 101, 112, 101, 110, 100>>   \* "optdepend"
Lit_makedepend == <<109, 97, 107, 101, 100, 101, 112, 101, 110, 100>>   \* "makedepend"
Lit_checkdepend == <<99, 104, 101, 99, 107, 100, 101, 112, 101, 110, 100>>   \* "checkdepend"
Lit_backup == <<98, 97, 99, 107, 117, 112>>   \* "backup"
Lit_makepkgopt == <<109, 97, 107, 101, 112, 107, 103, 111, 112, 116>>   \* "makepkgopt"
Lit_options == <<111, 112, 116, 105, 111, 110, 115>>   \* "options"
Lit_builddir == <<98, 117, 105, 108, 100, 100, 105, 114>>   \* "builddir"
Lit_buildenv == <<98, 117, 105, 108, 100, 101, 110, 118>>   \* "buildenv"
Lit_pkgbuild_sha256sum == <<112, 107, 103, 98, 117, 105, 108, 100, 95, 115, 104, 97, 50, 53, 54, 115, 117, 109>>   \* "pkgbuild_sha256sum"
Lit_installed == <<105, 110, 115, 116, 97, 108, 108, 101, 100>>   \* "installed"

\* The alternatives of metadata's alt!, in the order they are tried.
MetadataKeys == <<
    [tag |-> Lit_pkgbase, entry |-> "Base"],
    [tag |-> Lit_pkgdesc, entry |-> "Description"],
    [tag |-> Lit_url, entry |-> "Url"],
    [tag |-> Lit_builddate, entry |-> "BuildDate"],
    [tag |-> Lit_packager, entry |-> "Packager"],
    [tag |-> Lit_size, entry |-> "InstallSize"],
    [tag |-> Lit_group, entry |-> "Groups"],
    [tag |-> Lit_license, entry |-> "License"],
    [tag |-> Lit_replaces, entry |-> "Replaces"],
    [tag |-> Lit_depend, entry |-> "Depends"],
    [tag |-> Lit_conflict, entry |-> "Conflicts"],
    [tag |-> Lit_provides, entry |-> "Provides"],
    [tag |-> Lit_optdepend, entry |-> "OptDepends"],
    [tag |-> Lit_makedepend, entry |-> "MakeDepends"],
    [tag |-> Lit_checkdepend, entry |-> "CheckDepends"],
    [tag |-> Lit_backup, entry |-> "Backups"],
    [tag |-> Lit_makepkgopt, entry |-> "BuildOptions"],
    [tag |-> Lit_options, entry |-> "BuildOptions"],
    [tag |-> Lit_builddir, entry |-> "BuildDirectory"],
    [tag |-> Lit_buildenv, entry |-> "BuildEnvironment"],
    [tag |-> Lit_pkgbuild_sha256sum, entry |-> "SHA256Sum"],
    [tag |-> Lit_installed, entry |-> "BuildInstalled"]
>>

----------------------------------------------------------------------------
(* nom: results and the combinators the source uses *)

Done(i, o) == [k |-> "Done", i |-> i, o |-> o]
Error == [k |-> "Error", i |-> <<>>, o |-> <<>>]
Incomplete == [k |-> "Incomplete", i |-> <<>>, o |-> <<>>]

Min(a, b) == IF a < b THEN a ELSE b

\* F applied to the value of x (x is evaluated once).
Let(x, F(_)) == CHOOSE y \in {F(v) : v \in {x}} : TRUE

\* do_parse!(r >> ...): what follows, K, runs on r's Done; r's Error or
\* Incomplete is the result.
Then(r, K(_)) == Let(r, LAMBDA v : IF v.k = "Done" THEN K(v) ELSE v)

Drop(s, n) == SubSeq(s, n + 1, Len(s))

\* tag!(t): compares the first min(len) bytes; a mismatch is an Error, a
\* buffer that ends inside the tag is Incomplete.
tag(i, t) ==
    LET m == Min(Len(i), Len(t)) IN
    IF SubSeq(i, 1, m) # SubSeq(t, 1, m) THEN Error
    ELSE IF m < Len(t) THEN Incomplete
    ELSE Done(Drop(i, Len(t)), t)

\* Variant of take_until: an input that does not hold t asks for more bytes.
take_until_streaming(i, t) ==
    LET found == {n \in 1..(Len(i) - Len(t) + 1) :
                     SubSeq(i, n, n + Len(t) - 1) = t} IN
    IF found = {} THEN Incomplete
    ELSE LET n == CHOOSE x \in found : \A y \in found : x <= y IN
         Done(Drop(i, n - 1), SubSeq(i, 1, n - 1))

\* take_until!(t): Incomplete only when the input is shorter than t; an input
\* that does not hold t is an Error; the match itself is not consumed.
take_until(i, t) ==
    IF Len(t) > Len(i) THEN Incomplete
    ELSE LET found == {n \in 1..(Len(i) - Len(t) + 1) :
                          SubSeq(i, n, n + Len(t) - 1) = t} IN
         IF found = {} THEN Error
         ELSE LET n == CHOOSE x \in found : \A y \in found : x <= y IN
              Done(Drop(i, n - 1), SubSeq(i, 1, n - 1))

\* The length of the longest prefix of i made of bytes of `chars`.
PrefixLen(i, chars) ==
    LET stops == {n \in 1..Len(i) : <<i[n]>> \notin chars} IN
    IF stops = {} THEN Len(i)
    ELSE (CHOOSE x \in stops : \A y \in stops : x <= y) - 1

\* What a one-or-more character-class parser of nom does: `ews` ("Error" or
\* "Incomplete") is its result on an empty input.
one_or_more(i, chars, ews) ==
    IF Len(i) = 0 THEN (IF ews = "Error" THEN Error ELSE Incomplete)
    ELSE LET n == PrefixLen(i, chars) IN
         IF n = 0 THEN Error ELSE Done(Drop(i, n), SubSeq(i, 1, n))

\* nom::space: one or more spaces or tabs.
space(i, ews) == one_or_more(i, {SP, TAB}, ews)

\* Variant of multispace: spaces and tabs only, as `space`.
multispace_no_newline(i, ews) == one_or_more(i, {SP, TAB}, ews)

\* nom::multispace: one or more spaces, tabs, carriage returns or line feeds.
multispace(i, ews) == one_or_more(i, {SP, TAB, CR, NL}, ews)

\* opt!(p): an Error of p becomes Done(i, None); Incomplete passes through.
opt(r, i) ==
    Let(r, LAMBDA v :
        IF v.k = "Done" THEN Done(v.i, <<v.o>>)
        ELSE IF v.k = "Error" THEN Done(i, <<>>)
        ELSE Incomplete)

RECURSIVE from_utf8(_)
\* str::from_utf8: TRUE iff the bytes are well-formed UTF-8.
from_utf8(s) ==
    LET cont(n) == n <= Len(s) /\ s[n] >= 128 /\ s[n] <= 191 IN
    IF Len(s) = 0 THEN TRUE
    ELSE IF s[1] < 128 THEN from_utf8(Drop(s, 1))
    ELSE IF s[1] >= 194 /\ s[1] <= 223
         THEN cont(2) /\ from_utf8(Drop(s, 2))
    ELSE IF s[1] >= 224 /\ s[1] <= 239
         THEN /\ cont(2) /\ cont(3)
              /\ (s[1] = 224 => s[2] >= 160)
              /\ (s[1] = 237 => s[2] <= 159)
              /\ from_utf8(Drop(s, 3))
    ELSE IF s[1] >= 240 /\ s[1] <= 244
         THEN /\ cont(2) /\ cont(3) /\ cont(4)
              /\ (s[1] = 240 => s[2] >= 144)
              /\ (s[1] = 244 => s[2] <= 143)
              /\ from_utf8(Drop(s, 4))
    ELSE FALSE

----------------------------------------------------------------------------
(* The tokenizer *)

Token(t, e, v) == [t |-> t, e |-> e, v |-> v]

\* comment: tag!("#") >> take_until!("\n") >> (Token::Comment)
comment(i) ==
    Then(tag(i, HASH), LAMBDA a :
    Then(take_until(a.i, NL), LAMBDA b :
    Done(b.i, Token("Comment", "", <<>>))))

\* Variant of value: the bytes are taken without decoding them.
value_undecoded(i) == take_until(i, NL)

\* value: map_res!(take_until!("\n"), str::from_utf8)
value(i) ==
    Then(take_until(i, NL), LAMBDA r :
    IF from_utf8(r.o) THEN r ELSE Error)

\* Variant of seperator: the white space after "=" is optional.
seperator_opt_after(i, ews) ==
    Then(space(i, ews), LAMBDA a :
    Then(tag(a.i, EQ), LAMBDA b :
    Then(opt(space(b.i, ews), b.i), LAMBDA c :
    Done(c.i, <<>>))))

\* seperator: space >> tag!("=") >> space
seperator(i, ews) ==
    Then(space(i, ews), LAMBDA a :
    Then(tag(a.i, EQ), LAMBDA b :
    Then(space(b.i, ews), LAMBDA c :
    Done(c.i, <<>>))))

\* tag!(key) >> seperator >> value: the shape of pkgname, pkgver and arch.
key_line(i, ews, key, t) ==
    Then(tag(i, key), LAMBDA a :
    Then(seperator(a.i, ews), LAMBDA b :
    Then(value(b.i), LAMBDA c :
    Done(c.i, Token(t, "", c.o)))))

pkgname(i, ews) == key_line(i, ews, Lit_pkgname, "Name")

pkgver(i, ews) == key_line(i, ews, Lit_pkgver, "Version")

arch(i, ews) == key_line(i, ews, Lit_arch, "Arch")

RECURSIVE metadata_key(_, _)
\* The alt! of metadata: the first tag that is not an Error decides.
metadata_key(i, n) ==
    IF n > Len(MetadataKeys) THEN Error
    ELSE Let(tag(i, MetadataKeys[n].tag), LAMBDA r :
         IF r.k = "Error" THEN metadata_key(i, n + 1)
         ELSE IF r.k = "Done" THEN Done(r.i, MetadataKeys[n].entry)
         ELSE r)

\* What follows the key of a metadata line: space >> tag!("=") >> opt!(space)
metadata_sep(i, ews) ==
    Then(space(i, ews), LAMBDA a :
    Then(tag(a.i, EQ), LAMBDA b :
    Then(opt(space(b.i, ews), b.i), LAMBDA c :
    Done(c.i, <<>>))))

\* metadata: key: alt!(...) >> space >> tag!("=") >> opt!(space) >> val: value
metadata(i, ews) ==
    Then(metadata_key(i, 1), LAMBDA a :
    Then(metadata_sep(a.i, ews), LAMBDA b :
    Then(value(b.i), LAMBDA c :
    Done(c.i, Token("Metadata", a.o, c.o)))))

\* alt!(a | b): a's Done or Incomplete is the result; only its Error tries b.
alt(a, b) == Let(a, LAMBDA r : IF r.k = "Error" THEN b ELSE r)

\* alt!(comment | pkgname | pkgver | arch | metadata)
token_alt(i, ews) ==
    alt(comment(i),
        alt(pkgname(i, ews),
            alt(pkgver(i, ews),
                alt(arch(i, ews), metadata(i, ews)))))

\* The parser many0! repeats: token: alt!(...) >> opt!(multispace) >> (token)
token_line(i, ews) ==
    Then(token_alt(i, ews), LAMBDA a :
    Then(opt(multispace(a.i, ews), a.i), LAMBDA b :
    Done(b.i, a.o)))

RECURSIVE many0(_, _, _)
\* Variant of many0: an Error of the repeated parser is passed on.
many0_error_passed(i, res, ews) ==
    IF Len(i) = 0 THEN Done(i, res)
    ELSE Let(token_line(i, ews), LAMBDA r :
         IF r.k # "Done" THEN r
         ELSE IF r.i = i THEN Error
         ELSE Let(Append(res, r.o), LAMBDA v : many0(r.i, v, ews)))

\* many0!: stops with Done at the end of the input and at the first Error of
\* the repeated parser; Incomplete is passed on.
many0(i, res, ews) ==
    IF Len(i) = 0 THEN Done(i, res)
    ELSE Let(token_line(i, ews), LAMBDA r :
         IF r.k = "Error" THEN Done(i, res)
         ELSE IF r.k = "Incomplete" THEN Incomplete
         ELSE IF r.i = i THEN Error
         ELSE Let(Append(res, r.o), LAMBDA v : many0(r.i, v, ews)))

\* pkginfo: many0!(do_parse!(token >> opt!(multispace) >> (token)))
pkginfo(i, ews) == many0(i, <<>>, ews)

----------------------------------------------------------------------------
(* The record assembler *)

\* The value kind of each Entry (package.rs, not part of src/).
EntryKind(e) ==
    IF e \in {"Base", "Description", "Url", "Packager", "BuildDirectory",
              "SHA256Sum"} THEN "Text"
    ELSE IF e = "InstallSize" THEN "Size"
    ELSE IF e = "BuildDate" THEN "Timestamp"
    ELSE "List"

RECURSIVE parse_digits(_, _)
\* The decimal number the digits of s spell, or -1 if s holds another byte.
parse_digits(s, acc) ==
    IF Len(s) = 0 THEN acc
    ELSE IF s[1] < 48 \/ s[1] > 57 THEN -1
    ELSE parse_digits(Drop(s, 1), acc * 10 + (s[1] - 48))

MetaText(v) == [kind |-> "Text", text |-> v, num |-> 0, list |-> <<>>]
MetaNum(kind, n) == [kind |-> kind, text |-> <<>>, num |-> n, list |-> <<>>]
MetaList(l) == [kind |-> "List", text |-> <<>>, num |-> 0, list |-> l]

\* (key, v).into(): the Metadata of a first occurrence, by the key's kind;
\* ok is FALSE when an integer kind's text is not a number.
metadata_from(key, v) ==
    LET kind == EntryKind(key) IN
    IF kind = "Text" THEN [ok |-> TRUE, m |-> MetaText(v)]
    ELSE IF kind = "List" THEN [ok |-> TRUE, m |-> MetaList(<<v>>)]
    ELSE LET signed == kind = "Timestamp" /\ Len(v) > 0 /\ v[1] = 45
             digits == IF signed THEN Drop(v, 1) ELSE v
             n == IF Len(digits) = 0 THEN -1 ELSE parse_digits(digits, 0)
         IN [ok |-> n >= 0,
             m |-> MetaNum(kind, IF signed THEN 0 - n ELSE n)]

\* Variant of list_push: the new value goes to the front.
list_push_front(l, v) == <<v>> \o l

\* l.push(v.into())
list_push(l, v) == Append(l, v)

\* Variant of metadata_arm: an occupied entry that is no List takes the new
\* value instead of panicking.
metadata_arm_overwrite(acc, key, v, n) ==
    IF key \in DOMAIN acc.metadata
    THEN IF acc.metadata[key].kind = "List"
         THEN [acc EXCEPT !.metadata[key].list = list_push(@, v)]
         ELSE [acc EXCEPT !.metadata[key] = metadata_from(key, v).m]
    ELSE Let(metadata_from(key, v), LAMBDA m :
         IF m.ok THEN [acc EXCEPT !.metadata = @ @@ (key :> m.m)]
         ELSE [acc EXCEPT !.st = "into", !.at = n])

\* The Token::Metadata arm: an occupied entry must hold a List, which grows;
\* any other occupied entry panics; a vacant entry is filled by into().
metadata_arm(acc, key, v, n) ==
    IF key \in DOMAIN acc.metadata
    THEN IF acc.metadata[key].kind = "List"
         THEN [acc EXCEPT !.metadata[key].list = list_push(@, v)]
         ELSE [acc EXCEPT !.st = "build_pkg", !.at = n]
    ELSE Let(metadata_from(key, v), LAMBDA m :
         IF m.ok THEN [acc EXCEPT !.metadata = @ @@ (key :> m.m)]
         ELSE [acc EXCEPT !.st = "into", !.at = n])

\* Variant of build_step: the first pkgname, pkgver or arch is kept.
build_step_first_wins(acc, token, n) ==
    IF token.t = "Comment" THEN acc
    ELSE IF token.t = "Name"
         THEN (IF acc.pkgname = <<>>
               THEN [acc EXCEPT !.pkgname = <<token.v>>] ELSE acc)
    ELSE IF token.t = "Version"
         THEN (IF acc.pkgver = <<>>
               THEN [acc EXCEPT !.pkgver = <<token.v>>] ELSE acc)
    ELSE IF token.t = "Arch"
         THEN (IF acc.arch = <<>>
               THEN [acc EXCEPT !.arch = <<token.v>>] ELSE acc)
    ELSE metadata_arm(acc, token.e, token.v, n)

\* One turn of build_pkg's loop, on token number n.
build_step(acc, token, n) ==
    IF token.t = "Comment" THEN acc
    ELSE IF token.t = "Name" THEN [acc EXCEPT !.pkgname = <<token.v>>]
    ELSE IF token.t = "Version" THEN [acc EXCEPT !.pkgver = <<token.v>>]
    ELSE IF token.t = "Arch" THEN [acc EXCEPT !.arch = <<token.v>>]
    ELSE metadata_arm(acc, token.e, token.v, n)

RECURSIVE build_loop(_, _, _)
\* for token in tokens { ... }: a panic ends the loop.
build_loop(toks, n, acc) ==
    IF n > Len(toks) \/ acc.st # "ok" THEN acc
    ELSE Let(build_step(acc, toks[n], n), LAMBDA a :
              build_loop(toks, n + 1, a))

\* arch.unwrap_or_default()
unwrap_or_default(o) == IF Len(o) = 0 THEN <<>> ELSE o[1]

\* Variant of make_package: a name alone makes a Package.
make_package_name_only(acc) ==
    IF Len(acc.pkgname) = 0 THEN <<>>
    ELSE << [name |-> acc.pkgname[1],
             version |-> unwrap_or_default(acc.pkgver),
             arch |-> unwrap_or_default(acc.arch),
             metadata |-> acc.metadata] >>

\* pkgname.and_then(|pkgname| pkgver.map(|pkgver| Package { ... }))
make_package(acc) ==
    IF Len(acc.pkgname) = 0 \/ Len(acc.pkgver) = 0 THEN <<>>
    ELSE << [name |-> acc.pkgname[1],
             version |-> acc.pkgver[1],
             arch |-> unwrap_or_default(acc.arch),
             metadata |-> acc.metadata] >>

\* build_pkg: [st, at, o]: st is "ok" and o the Option<Package>, or st is the
\* place of a panic and at the number of the token it happened on.
build_pkg(toks) ==
    Let(build_loop(toks, 1,
            [pkgname |-> <<>>, pkgver |-> <<>>, arch |-> <<>>,
             metadata |-> <<>>, st |-> "ok", at |-> 0]),
        LAMBDA acc :
            [st |-> acc.st, at |-> acc.at,
             o |-> IF acc.st = "ok" THEN make_package(acc) ELSE <<>>])

----------------------------------------------------------------------------
(* Inputs: a file is a sequence of line descriptors *)

KV(key, pre, post, val, nl) ==
    [form |-> "kv", key |-> key, pre |-> pre, post |-> post, val |-> val,
     nl |-> nl]
Cmt(val, nl) ==
    [form |-> "comment", key |-> HASH, pre |-> <<>>, post |-> <<>>,
     val |-> val, nl |-> nl]
Raw(val, nl) ==
    [form |-> "raw", key |-> <<>>, pre |-> <<>>, post |-> <<>>, val |-> val,
     nl |-> nl]

\* The bytes of one line.
Render(d) ==
    (IF d.form = "kv" THEN d.key \o d.pre \o EQ \o d.post \o d.val
     ELSE d.key \o d.val)
    \o (IF d.nl THEN NL ELSE <<>>)

RECURSIVE Bytes(_)
\* The bytes of a file.
Bytes(ls) == IF Len(ls) = 0 THEN <<>> ELSE Render(Head(ls)) \o Bytes(Tail(ls))

Lit_badentry == <<98, 97, 100, 101, 110, 116, 114, 121>>   \* "badentry"
Lit_depends == <<100, 101, 112, 101, 110, 100, 115>>       \* "depends"
Va == <<97>>     \* "a"
Vb == <<98>>     \* "b"
V1 == <<49>>     \* "1"
VBad == <<128>>  \* a lone continuation byte: not UTF-8

NameKeys == {Lit_pkgname, Lit_pkgver, Lit_arch}
MetaKeyLits == {MetadataKeys[n].tag : n \in 1..Len(MetadataKeys)}

Line(key, val) == KV(key, SP, SP, val, TRUE)

\* One line, every key, every spelling of the separator.
SepInputs ==
    { <<KV(k, pre, post, v, TRUE)>> :
        k \in NameKeys \cup MetaKeyLits, pre \in {<<>>, SP, TAB},
        post \in {<<>>, SP}, v \in {<<>>, V1} }

V_1 == <<45, 49>>   \* "-1"

\* pkgname, pkgver and arch lines, two values each.
HdrPool == {Line(k, v) : k \in NameKeys, v \in {Va, Vb}}

\* List-kind and Text-kind metadata lines around a name and a version.
LstPool ==
    {Line(Lit_pkgname, Va), Line(Lit_pkgver, Va),
     Line(Lit_depend, Va), Line(Lit_depend, Vb),
     Line(Lit_options, Va), Line(Lit_makepkgopt, Vb),
     Line(Lit_url, Va)}

\* Integer-kind metadata lines around a name and a version.
NumPool ==
    {Line(Lit_pkgname, Va), Line(Lit_pkgver, Va),
     Line(Lit_size, V1), Line(Lit_size, Va), Line(Lit_builddate, V_1)}

\* Lines the tokenizer takes, and lines it stops at: a blank line, an
\* unknown key, a key that only starts as a known one, a value that is not
\* UTF-8.
TokPool ==
    {Line(Lit_pkgname, Va), Line(Lit_pkgver, Va), Line(Lit_depend, Va),
     Cmt(Va, TRUE), Raw(<<>>, TRUE),
     Line(Lit_badentry, Va), Line(Lit_depends, Va), Line(Lit_url, VBad)}

\* Last lines that the buffer ends in.
Tails ==
    {Cmt(<<>>, FALSE), Cmt(Va, FALSE),
     KV(Lit_pkgname, SP, SP, Va, FALSE), KV(Lit_pkgname, SP, SP, <<>>, FALSE),
     KV(Lit_pkgname, SP, <<>>, <<>>, FALSE), Raw(Lit_pkgname, FALSE),
     Raw(SubSeq(Lit_pkgname, 1, 2), FALSE),
     KV(Lit_url, SP, <<>>, <<>>, FALSE), KV(Lit_url, SP, SP, Va, FALSE),
     KV(Lit_badentry, SP, SP, Va, FALSE),
     Raw(SubSeq(Lit_url, 1, 1), FALSE)}

V2 == <<50>>     \* "2"
V3 == <<51>>     \* "3"

\* A name, a version and one metadata key one to three times, every key.
RepInputs ==
    { <<Line(Lit_pkgname, Va), Line(Lit_pkgver, Va)>>
        \o SubSeq(<<Line(k, V1), Line(k, V2), Line(k, V3)>>, 1, c) :
        k \in MetaKeyLits, c \in 1..3 }

\* The files of at most n lines of P.
Files(P, n) == UNION {[1..k -> P] : k \in 0..n}

----------------------------------------------------------------------------
(* The entry points *)

\* parse_pkginfo: Done carries build_pkg's Option<Package>, Incomplete and
\* Error are passed on; [k, i, o, toks, st, at], st and at build_pkg's.
parse_pkginfo(i, ews) ==
    Let(pkginfo(i, ews), LAMBDA t :
        IF t.k = "Done"
        THEN Let(build_pkg(t.o), LAMBDA b :
                 [k |-> "Done", i |-> t.i, o |-> b.o, toks |-> t.o,
                  st |-> b.st, at |-> b.at])
        ELSE [k |-> t.k, i |-> <<>>, o |-> <<>>, toks |-> <<>>,
              st |-> "ok", at |-> 0])

\* Variant of assert_empty: nothing is asserted.
assert_nothing(i) == TRUE

\* assert_eq!(i, &b""[..])
assert_empty(i) == i = <<>>

NoResult == [k |-> "", i |-> <<>>, o |-> <<>>]
NoPanic == [at |-> "", n |-> 0]

\* The inputs: each family exercises one part of the parser.
Init ==
    /\ \/ lines \in SepInputs
       \/ lines \in RepInputs
       \/ lines \in Files(HdrPool, MaxLines)
       \/ lines \in Files(LstPool, MaxLines)
       \/ lines \in Files(NumPool, MaxLines)
       \/ lines \in Files(TokPool, MaxTokLines)
       \/ \E ls \in Files(TokPool, MaxTokLines - 1), t \in Tails :
              lines = Append(ls, t)
    /\ input = Bytes(lines)
    /\ pc = "call"
    /\ tokens = <<>>
    /\ result = NoResult
    /\ ret = <<>>
    /\ panic = NoPanic

\* A call of parse_pkginfo on the buffer.
Call_parse_pkginfo ==
    /\ pc = "call"
    /\ \E ews \in {"Error", "Incomplete"} :
         \E r \in {parse_pkginfo(input, ews)} :
         /\ tokens' = r.toks
         /\ IF r.st = "ok"
            THEN /\ result' = [k |-> r.k, i |-> r.i, o |-> r.o]
                 /\ pc' = "parsed"
                 /\ panic' = panic
            ELSE /\ result' = result
                 /\ pc' = "panicked"
                 /\ panic' = [at |-> r.st, n |-> r.at]
    /\ UNCHANGED <<lines, input, ret>>

\* Package::pkginfo, from the return of its call of parse_pkginfo on.
Call_Package_pkginfo ==
    /\ pc = "parsed"
    /\ IF result.k = "Done"
       THEN IF assert_empty(result.i)
            THEN /\ ret' = result.o
                 /\ pc' = "returned"
                 /\ panic' = panic
            ELSE /\ ret' = ret
                 /\ pc' = "panicked"
                 /\ panic' = [at |-> "assert_eq", n |-> 0]
       ELSE /\ ret' = <<>>
            /\ pc' = "returned"
            /\ panic' = panic
    /\ UNCHANGED <<lines, input, tokens, result>>

Next == Call_parse_pkginfo \/ Call_Package_pkginfo

Spec == Init /\ [][Next]_vars
----------------------------------------------------------------------------
(* What the claims speak of: the file as written, read line by line *)

\* The Entry of each metadata key literal.
SpecEntry(k) ==
    CASE k = Lit_pkgbase -> "Base"
      [] k = Lit_pkgdesc -> "Description"
      [] k = Lit_url -> "Url"
      [] k = Lit_builddate -> "BuildDate"
      [] k = Lit_packager -> "Packager"
      [] k = Lit_size -> "InstallSize"
      [] k = Lit_group -> "Groups"
      [] k = Lit_license -> "License"
      [] k = Lit_replaces -> "Replaces"
      [] k = Lit_depend -> "Depends"
      [] k = Lit_conflict -> "Conflicts"
      [] k = Lit_provides -> "Provides"
      [] k = Lit_optdepend -> "OptDepends"
      [] k = Lit_makedepend -> "MakeDepends"
      [] k = Lit_checkdepend -> "CheckDepends"
      [] k = Lit_backup -> "Backups"
      [] k = Lit_makepkgopt -> "BuildOptions"
      [] k = Lit_options -> "BuildOptions"
      [] k = Lit_builddir -> "BuildDirectory"
      [] k = Lit_buildenv -> "BuildEnvironment"
      [] k = Lit_pkgbuild_sha256sum -> "SHA256Sum"
      [] k = Lit_installed -> "BuildInstalled"

ScalarEntries ==
    {"Base", "Description", "Url", "Packager", "BuildDirectory", "SHA256Sum",
     "InstallSize", "BuildDate"}

ListEntries ==
    {"Groups", "License", "Replaces", "Depends", "Conflicts", "Provides",
     "OptDepends", "MakeDepends", "CheckDepends", "Backups", "BuildOptions",
     "BuildEnvironment", "BuildInstalled"}

KnownKeys == NameKeys \cup MetaKeyLits

IsText(v) == \A n \in 1..Len(v) : v[n] < 128

IsBlank(d) == d.form = "raw" /\ d.val = <<>> /\ d.nl

\* A line "k = v" of a key that is none of the known ones, finished or not.
IsUnknown(d) == d.form = "kv" /\ d.key \notin KnownKeys

\* A line with a known key and the separator the tokenizer asks for: white
\* space before "=" and, on a pkgname, pkgver or arch line, after it too.
WellSeparated(d) ==
    /\ d.form = "kv" /\ d.key \in KnownKeys
    /\ d.pre # <<>>
    /\ (d.key \in NameKeys => d.post # <<>>)

\* A line that makes a token: a finished comment, or a finished well
\* separated line of text.
Recognized(d) ==
    \/ d.form = "comment" /\ d.nl
    \/ WellSeparated(d) /\ IsText(d.val) /\ d.nl

\* The tokenizer takes line number n of a file: a recognized line, or a
\* blank line after another line.
Takes(d, n) == Recognized(d) \/ (IsBlank(d) /\ n > 1)

\* The number of the first line the tokenizer does not take (one past the
\* last line if it takes them all).
StopIdx(ls) ==
    LET bad == {n \in 1..Len(ls) : ~Takes(ls[n], n)} IN
    IF bad = {} THEN Len(ls) + 1
    ELSE CHOOSE x \in bad : \A y \in bad : x <= y

\* The token of a line.
ExpTok(d) ==
    IF d.form = "comment" THEN Token("Comment", "", <<>>)
    ELSE IF d.key = Lit_pkgname THEN Token("Name", "", d.val)
    ELSE IF d.key = Lit_pkgver THEN Token("Version", "", d.val)
    ELSE IF d.key = Lit_arch THEN Token("Arch", "", d.val)
    ELSE Token("Metadata", SpecEntry(d.key), d.val)

\* The tokens of the first n lines.
ExpToks(ls, n) ==
    LET c == SelectSeq(SubSeq(ls, 1, n), LAMBDA d : d.form # "raw") IN
    [j \in 1..Len(c) |-> ExpTok(c[j])]

\* The bytes of the file from line n on.
From(ls, n) == Bytes(SubSeq(ls, n, Len(ls)))

\* The values of the lines with key literal in ks among the first n, in order.
ValuesOf(ls, n, ks) ==
    LET c == SelectSeq(SubSeq(ls, 1, n),
                       LAMBDA d : d.form = "kv" /\ d.key \in ks) IN
    [j \in 1..Len(c) |-> c[j].val]

Last(s) == s[Len(s)]

Stop == StopIdx(lines)
Called == pc # "call"
Aborted == pc = "panicked" /\ panic.at \in {"build_pkg", "into"}
HasTok(t) == \E n \in 1..Len(tokens) : tokens[n].t = t
HasLine(k) == \E n \in 1..Len(lines) : lines[n].form = "kv" /\ lines[n].key = k

----------------------------------------------------------------------------
(* The assembler's claims *)

TokCount(t) == Cardinality({n \in 1..Len(tokens) : tokens[n].t = t})

\* C1: an input with no pkgname line or no pkgver line gives no record,
\* whatever other lines it holds; and when parse_pkginfo is Done, it holds a
\* record exactly if a Name and a Version token were both consumed.
C1_RequiredFields ==
    Called =>
        /\ (~HasLine(Lit_pkgname) \/ ~HasLine(Lit_pkgver))
               => result.o = <<>> /\ ret = <<>>
        /\ result.k = "Done"
               => (result.o # <<>> <=> HasTok("Name") /\ HasTok("Version"))

\* C1's case: a name and two or more metadata lines, no version, no record.
C1_Witness ==
    /\ result.k = "Done" /\ result.o = <<>>
    /\ HasTok("Name") /\ ~HasTok("Version")
    /\ TokCount("Metadata") >= 2

\* The key literals of an Entry.
KeysOf(e) == {k \in MetaKeyLits : SpecEntry(k) = e}

\* C2: in a record, the list of every List-kind Entry is the values of that
\* Entry's lines (makepkgopt and options both being BuildOptions) among the
\* consumed lines, in file order, and an Entry with no line is absent.
C2_ListOrder ==
    result.k = "Done" /\ result.o # <<>> =>
        \A e \in ListEntries :
            LET md == result.o[1].metadata
                exp == ValuesOf(lines, Stop - 1, KeysOf(e))
            IN IF Len(exp) = 0 THEN e \notin DOMAIN md
               ELSE e \in DOMAIN md /\ md[e] = MetaList(exp)

\* C2's case: makepkgopt, pkgname, pkgver, options: one BuildOptions list of
\* the two values in file order.
C2_Witness ==
    /\ result.k = "Done" /\ result.o # <<>>
    /\ Len(lines) = 4
    /\ lines[1].key = Lit_makepkgopt /\ lines[4].key = Lit_options
    /\ lines[1].val # lines[4].val
    /\ result.o[1].metadata["BuildOptions"].list
           = <<lines[1].val, lines[4].val>>

\* The tokens that repeat the Text-kind or Integer-kind key of an earlier one.
ScalarRepeats ==
    {n \in 1..Len(tokens) :
        /\ tokens[n].t = "Metadata" /\ tokens[n].e \in ScalarEntries
        /\ \E m \in 1..(n - 1) :
               tokens[m].t = "Metadata" /\ tokens[m].e = tokens[n].e}

\* C8: when a Text-kind or Integer-kind key occurs a second time, build_pkg
\* panics at that token (unless an earlier token already ended it) and no
\* record is produced; and build_pkg panics at no other token, so never at a
\* List-kind key.
C8_RepeatedScalar ==
    Called =>
        /\ ScalarRepeats # {} =>
               LET n == CHOOSE x \in ScalarRepeats :
                            \A y \in ScalarRepeats : x <= y
               IN /\ pc = "panicked" /\ result = NoResult /\ ret = <<>>
                  /\ \/ panic = [at |-> "build_pkg", n |-> n]
                     \/ panic.at = "into" /\ panic.n < n
        /\ panic.at = "build_pkg" => panic.n \in ScalarRepeats

\* C8's case: a name, a version and url twice: the panic is at the second url.
C8_Witness ==
    /\ pc = "panicked" /\ panic.at = "build_pkg"
    /\ HasTok("Name") /\ HasTok("Version")
    /\ tokens[panic.n].e = "Url"
    /\ Len(tokens) > panic.n

\* C10: in a record, name, version and arch are the values of the last
\* consumed pkgname, pkgver and arch line, arch being empty when there is no
\* arch line; and build_pkg panics at none of these lines.
C10_HeaderFields ==
    /\ result.k = "Done" /\ result.o # <<>> =>
           LET p == result.o[1]
               names == ValuesOf(lines, Stop - 1, {Lit_pkgname})
               vers == ValuesOf(lines, Stop - 1, {Lit_pkgver})
               archs == ValuesOf(lines, Stop - 1, {Lit_arch})
           IN /\ Len(names) > 0 /\ p.name = Last(names)
              /\ Len(vers) > 0 /\ p.version = Last(vers)
              /\ p.arch = IF Len(archs) = 0 THEN <<>> ELSE Last(archs)
    /\ Aborted => tokens[panic.n].t = "Metadata"

\* C10's case: two pkgname lines of different values and no arch line.
C10_Witness ==
    /\ result.k = "Done" /\ result.o # <<>>
    /\ LET names == ValuesOf(lines, Len(lines), {Lit_pkgname}) IN
           /\ Len(names) = 2 /\ names[1] # names[2]
           /\ result.o[1].name = names[2]
    /\ ~HasLine(Lit_arch)
    /\ result.o[1].arch = <<>>

----------------------------------------------------------------------------
(* The tokenizer's claims *)

\* What build_pkg makes of the tokens of the lines before the stop.
ExpRecord == build_pkg(ExpToks(lines, Stop - 1)).o

\* Package::pkginfo does not return: it fails its assertion, if it has run.
FailsAssertion ==
    /\ pc # "returned"
    /\ pc = "panicked" => panic.at = "assert_eq" /\ ret = <<>>

\* parse_pkginfo is Done with the tokens of the lines before the stop folded
\* and the file from the stop on as the remainder.
DoneAtStop ==
    /\ result.k = "Done"
    /\ result.i = From(lines, Stop)
    /\ result.o = ExpRecord

\* C3: when the lines before line N+1 are taken and line N+1 has an unknown
\* key, parse_pkginfo is Done, the tokens are those of the first N lines, the
\* remainder starts at line N+1 and runs to the end of the input, and no later
\* line adds to the record.
C3_StopAtUnknown ==
    Called /\ Stop <= Len(lines) /\ IsUnknown(lines[Stop]) =>
        /\ tokens = ExpToks(lines, Stop - 1)
        /\ Aborted \/ DoneAtStop

\* C3's case: a taken line, an unknown line, then a line that would be taken.
C3_Witness ==
    /\ Len(lines) = 3 /\ Stop = 2 /\ IsUnknown(lines[2])
    /\ lines[3].form = "kv" /\ Recognized(lines[3])
    /\ result.k = "Done" /\ Len(tokens) = 1
    /\ result.i = Render(lines[2]) \o Render(lines[3])

\* A finished, well separated line of a known key whose value is not UTF-8.
BadText(d) == WellSeparated(d) /\ d.nl /\ ~IsText(d.val)

\* C4 as amended: a value that is not UTF-8 stops the tokenizer as an unknown
\* line does: parse_pkginfo is Done with the line as the start of the
\* remainder and the record of the lines before it; only Package::pkginfo
\* then fails, on its assertion that the remainder is empty.
C4_DecodeStops ==
    Called /\ Stop <= Len(lines) /\ BadText(lines[Stop]) =>
        /\ tokens = ExpToks(lines, Stop - 1)
        /\ Aborted \/ (DoneAtStop /\ FailsAssertion)

\* C4's case: pkgname, pkgver, then a url that is not UTF-8: a record is
\* returned by parse_pkginfo.
C4_Witness ==
    /\ Stop = 3 /\ Len(lines) = 3 /\ BadText(lines[3])
    /\ result.k = "Done" /\ result.o # <<>>
    /\ result.i = Render(lines[3])
    /\ pc = "panicked" /\ panic.at = "assert_eq"

\* C4 as claimed: a value that is not UTF-8 ends the whole parse in an error
\* and no record is returned.
C4_Original ==
    Called /\ Stop <= Len(lines) /\ BadText(lines[Stop]) =>
        result.k # "Done" /\ result.o = <<>>

\* C5 as amended: on valid lines followed by an unknown line parse_pkginfo
\* completes with a non-empty remainder, and Package::pkginfo fails its
\* assertion; Package::pkginfo returns only an empty remainder's record, or
\* None when parse_pkginfo was not Done.
C5_AssertsRemainder ==
    /\ Called /\ Stop <= Len(lines) /\ IsUnknown(lines[Stop]) /\ ~Aborted =>
           result.k = "Done" /\ result.i # <<>> /\ FailsAssertion
    /\ pc = "returned" =>
           IF result.k = "Done" THEN result.i = <<>> /\ ret = result.o
           ELSE ret = <<>>

\* C5's case: a record's lines, then an unknown line, and the assertion fails.
C5_Witness ==
    /\ Stop <= Len(lines) /\ IsUnknown(lines[Stop])
    /\ result.k = "Done" /\ result.o # <<>>
    /\ pc = "panicked" /\ panic.at = "assert_eq"

\* C5 as claimed: Package::pkginfo on valid lines followed by an unknown line
\* completes without aborting.
C5_Original ==
    Stop <= Len(lines) /\ IsUnknown(lines[Stop]) => pc # "panicked"

\* A file of one finished line of text with a known key.
OneKeyLine ==
    /\ Len(lines) = 1
    /\ lines[1].form = "kv" /\ lines[1].key \in KnownKeys
    /\ lines[1].nl /\ IsText(lines[1].val)

\* C6 as amended: a line "k<pre>=<post>v" of a known key is one token for k
\* carrying v, empty or not, exactly if there is white space before "=" and,
\* for pkgname, pkgver and arch, after it too; white space after "=" is
\* optional on metadata lines only; any other spelling is not recognized and
\* the whole line is the remainder.
C6_SeparatorGrammar ==
    Called /\ OneKeyLine =>
        IF WellSeparated(lines[1])
        THEN /\ tokens = <<ExpTok(lines[1])>>
             /\ Aborted \/ (result.k = "Done" /\ result.i = <<>>)
        ELSE /\ tokens = <<>>
             /\ result = Done(input, <<>>)

\* C6's case: "pkgname =" and a line break: not a Name token of the empty
\* text, but an unrecognized line.
C6_Witness ==
    /\ OneKeyLine
    /\ lines[1].key = Lit_pkgname
    /\ lines[1].pre = SP /\ lines[1].post = <<>> /\ lines[1].val = <<>>
    /\ result = Done(input, <<>>) /\ tokens = <<>>

\* C6 as claimed: "k=v", "k =v", "k= v" and "k = v" are each one token for k
\* carrying v, for every known key and every text v.
C6_Original ==
    Called /\ OneKeyLine
           /\ lines[1].pre \in {<<>>, SP} /\ lines[1].post \in {<<>>, SP}
        => tokens = <<ExpTok(lines[1])>>

\* The file ends in an unfinished line, a comment or a well separated line of
\* a known key, and the lines before it are taken.
EndsUnfinished ==
    /\ Len(lines) > 0 /\ Stop = Len(lines)
    /\ ~Last(lines).nl
    /\ Last(lines).form = "comment" \/ WellSeparated(Last(lines))
    /\ IsText(Last(lines).val)

\* C7 as amended: when the buffer ends right after "#" or right after the
\* separator of a known key, parse_pkginfo is Incomplete, no record is made
\* and Package::pkginfo returns None; when at least one byte of the comment
\* or value is there, parse_pkginfo is Done instead, with the unfinished line
\* as the remainder and the record of the lines before it, and
\* Package::pkginfo fails its assertion.
C7_UnfinishedLine ==
    Called /\ EndsUnfinished =>
        IF Last(lines).val = <<>>
        THEN /\ result = Incomplete /\ tokens = <<>>
             /\ pc # "panicked" /\ ret = <<>>
        ELSE /\ tokens = ExpToks(lines, Stop - 1)
             /\ Aborted \/ (DoneAtStop /\ FailsAssertion)

\* C7's case: pkgname, pkgver, then "pkgname = a" with no line break:
\* parse_pkginfo is Done with a record.
C7_Witness ==
    /\ EndsUnfinished /\ Len(lines) = 3
    /\ WellSeparated(lines[3]) /\ lines[3].val # <<>>
    /\ result.k = "Done" /\ result.o # <<>>
    /\ result.i = Render(lines[3])

\* C7 as claimed: an input whose last line has no line break is Incomplete,
\* and Package::pkginfo returns None.
C7_Original ==
    Called /\ EndsUnfinished =>
        result.k = "Incomplete" /\ pc # "panicked" /\ ret = <<>>

\* C9 as amended: the remainder of a Done is the input from the first line
\* the tokenizer does not take on, so it is non-empty exactly when there is
\* such a line: an unknown key, a separator or a value it does not accept, an
\* unfinished last line, or a blank line at the very start of the input; a
\* file whose lines are all taken is Done with nothing left.
C9_Remainder ==
    /\ result.k = "Done" =>
           /\ result.i = From(lines, Stop)
           /\ result.i # <<>> <=> Stop <= Len(lines)
    /\ Called /\ Stop > Len(lines) /\ ~Aborted => result.k = "Done"

\* C9's case: a blank line, then pkgname and pkgver: the whole input is the
\* remainder.
C9_Witness ==
    /\ Len(lines) = 3 /\ IsBlank(lines[1])
    /\ Recognized(lines[2]) /\ lines[2].form = "kv"
    /\ Recognized(lines[3]) /\ lines[3].form = "kv"
    /\ result = Done(input, <<>>) /\ tokens = <<>>

\* C9 as claimed: an input made only of recognized, finished lines and blank
\* lines has an empty remainder.
C9_Original ==
    result.k = "Done"
        /\ (\A n \in 1..Len(lines) : IsBlank(lines[n]) \/ Recognized(lines[n]))
        => result.i = <<>>

====
